---- MODULE Spec2Model ----
(***************************************************************************)
(* The cart-to-order pipeline of the e-commerce backend                    *)
(* (controller/UserController.js, models/CartModel.js, ProductModel.js).   *)
(*                                                                         *)
(* Every request handler is one action: the specification Spec runs the    *)
(* requests one after the other against the shared document store.         *)
(* Money is counted in hundredths of the currency unit, so a price of 1.50 *)
(* is 150 and toFixed(2) is a rounding to an integer.                      *)
(***************************************************************************)
EXTENDS Integers, Sequences, FiniteSets, TLC

VARIABLES
  carts,    \* the Cart collection: owner -> the cart documents of that owner,
            \* in insertion order (every query of the code is by owner)
  orders,   \* the Order collection: a sequence of order documents
  product,  \* the Product collection: product id -> document
  coupons,  \* the Coupon collection: a set of coupon documents
  user,     \* the User collection: user id -> document (the address only)
  last,     \* the request that was answered last: the handler, the user, the
            \* response and, when the request succeeded, what it sent
  requests  \* the requests that wait at an await between two accesses of
            \* the store: request -> where it waits and what it holds

vars == <<carts, orders, product, coupons, user, last, requests>>

(***************************************************************************)
(* Bounds of the model.                                                    *)
(***************************************************************************)
\* lines of a cart, and items of a request
MaxLines == 2
\* the count an item of a request asks for
MaxCount == 2
\* documents of the Order collection
MaxOrders == 1
\* orders placed in the specification of the life of orders
MaxOrdersKept == 2
\* cart documents of one owner, where requests of the owner race
MaxCarts == 3

(***************************************************************************)
(* The documents the store starts with.                                    *)
(***************************************************************************)
Users == {"u1", "u2", "u3"}
ProductIds == {"p1", "p2"}
UnknownId == "px"

\* item.color left out of the request (a falsy value)
NoColor == ""

\* totalAfterDiscount of a document that never set it (undefined)
Undefined == -1

InitProduct ==
  [p \in ProductIds |->
     IF p = "p1"
       THEN [price |-> 150, quantity |-> 2, sold |-> 0, color |-> <<"red">>]
       ELSE [price |-> 98, quantity |-> 1, sold |-> 0, color |-> <<>>]]

InitCoupons ==
  { [name |-> "SAVE10", discount |-> 10], [name |-> "SAVE20", discount |-> 20] }

InitUser ==
  [u \in Users |->
     IF u = "u1" THEN [address |-> [city |-> "Pune", pincode |-> "411001"]]
     ELSE IF u = "u3"
       THEN [address |-> [city |-> "Delhi", pincode |-> "110001"]]
     ELSE [address |-> [city |-> "Pune", pincode |-> ""]]]


(***************************************************************************)
(* String conversions, on the strings the model uses.                      *)
(***************************************************************************)
ToLowerCase(s) ==
  CASE s = "RED" -> "red"
    [] s = "GREEN" -> "green"
    [] s = "Dispatched" -> "dispatched"
    [] s = "DELIVERED" -> "delivered"
    [] s = "Processing" -> "processing"
    [] s = "Cancelled" -> "cancelled"
    [] s = "In Transit" -> "in transit"
    [] s = "Shipped" -> "shipped"
    [] s = "Payment Successful" -> "payment successful"
    [] s = "Refunded" -> "refunded"
    [] OTHER -> s

\* .split(" ").map(word => word.charAt(0).toUpperCase() + word.slice(1)).join(" ")
TitleCase(s) ==
  CASE s = "not processed" -> "Not Processed"
    [] s = "in transit" -> "In Transit"
    [] s = "processing" -> "Processing"
    [] s = "dispatched" -> "Dispatched"
    [] s = "cancelled" -> "Cancelled"
    [] s = "delivered" -> "Delivered"
    [] s = "waiting" -> "Waiting"
    [] s = "payment successful" -> "Payment Successful"
    [] s = "payment failed" -> "Payment Failed"
    [] s = "declined" -> "Declined"
    [] s = "cash on delivery" -> "Cash On Delivery"
    [] OTHER -> s

ToUpperCase(s) ==
  CASE s = "save10" -> "SAVE10"
    [] s = "save20" -> "SAVE20"
    [] s = "bogus" -> "BOGUS"
    [] s = "old30" -> "OLD30"
    [] OTHER -> s

Includes(seq, x) == \E i \in 1..Len(seq) : seq[i] = x

(***************************************************************************)
(* Cart documents.                                                         *)
(***************************************************************************)
\* Cart.findOne({ orderby: u }): the index of the first match, 0 for null
FindOne(cs, u) == IF Len(cs[u]) > 0 THEN 1 ELSE 0

\* Cart.findOneAndRemove({ orderby: u })
\* a removal that removes nothing
FindOneAndKeep(cs, u) == cs

FindOneAndRemove(cs, u) ==
  IF FindOne(cs, u) = 0 THEN cs ELSE [cs EXCEPT ![u] = Tail(@)]

\* products.reduce((acc, curr) => acc + curr.price * curr.count, 0)
RECURSIVE ReduceTotal(_)
ReduceTotal(lines) ==
  IF lines = <<>> THEN 0
  ELSE Head(lines).price * Head(lines).count + ReduceTotal(Tail(lines))

\* new Cart({...}): cartTotal defaults to 0, totalAfterDiscount is not set.
\* couponed is a history field, not a path of cartSchema: whether applyCoupon
\* has written a discount on this document.
NewCart(u, lines, total) ==
  [orderby |-> u, products |-> lines, cartTotal |-> total,
   totalAfterDiscount |-> Undefined, couponed |-> FALSE]

\* cartSchema.pre("save")
PreSave(cart) ==
  IF cart.totalAfterDiscount = Undefined \/ cart.totalAfterDiscount = 0
    THEN [cart EXCEPT !.totalAfterDiscount = cart.cartTotal]
    ELSE cart

\* newCart.save(): the insert of a new document
Insert(cs, doc) == [cs EXCEPT ![doc.orderby] = Append(@, PreSave(doc))]

\* cartItemSchema: count has min 1, price has min 0
Validate(cart) ==
  \A i \in 1..Len(cart.products) :
    /\ cart.products[i].count >= 1
    /\ cart.products[i].price >= 0

(***************************************************************************)
(* Validation of one requested item against the catalog.                   *)
(***************************************************************************)
ProductFound(item, prod) == item._id \in DOMAIN prod

StockOk(item, p) == ~(item.count > p.quantity)

ColorOk(item, p) ==
  ~(item.color # NoColor /\ ~Includes(p.color, ToLowerCase(item.color)))

\* item?.color || product?.color[0] || "General"
ResolveColor(item, p) ==
  IF item.color # NoColor THEN item.color
  ELSE IF Len(p.color) > 0 THEN p.color[1]
  ELSE "General"

CartLine(item, p) ==
  [product |-> item._id, count |-> item.count,
   color |-> ResolveColor(item, p), price |-> p.price]

(***************************************************************************)
(* The requests a client may send.                                         *)
(***************************************************************************)
\* The items a request may name: a colour given or left out, a count within
\* or beyond the stock, a colour the product does not have, a count of 0, an
\* unknown product.
Items ==
  { [_id |-> "p1", count |-> MaxCount, color |-> NoColor],
    [_id |-> "p1", count |-> 1, color |-> "red"],
    [_id |-> "p2", count |-> 1, color |-> NoColor],
    [_id |-> "p1", count |-> 1, color |-> "green"],
    [_id |-> "p1", count |-> 0, color |-> NoColor],
    [_id |-> UnknownId, count |-> 1, color |-> NoColor] }

Requests == UNION { [1..n -> Items] : n \in 1..MaxLines }

\* the users who send requests in Spec
Shoppers == {"u1"}

CouponCodes == {"save10", "SAVE20", "bogus"}

NoInput == "none"

Response(op, u, status, input) ==
  [op |-> op, user |-> u, status |-> status,
   input |-> IF status = "ok" THEN input ELSE NoInput]

(***************************************************************************)
(* loginUser: creates an empty cart for a user who has none.               *)
(***************************************************************************)
loginUser(u) ==
  /\ carts' = IF FindOne(carts, u) = 0
                THEN Insert(carts, NewCart(u, <<>>, 0))
                ELSE carts
  /\ last' = Response("loginUser", u, "ok", NoInput)
  /\ UNCHANGED <<requests, orders, product, coupons, user>>

(***************************************************************************)
(* userCart: POST /add-cart, builds the cart from the submitted items.     *)
(***************************************************************************)
\* what one callback of cart.map(...) yields: a cart line, the response object
\* (unknown product: the callback returns res.status(400).json(...)), or a throw
ItemOutcome(item, prod) ==
  IF ~ProductFound(item, prod) THEN "res"
  ELSE IF ~StockOk(item, prod[item._id]) THEN "throw"
  ELSE IF ~ColorOk(item, prod[item._id]) THEN "throw"
  ELSE "line"

userCartLines(items, prod) ==
  [i \in 1..Len(items) |-> CartLine(items[i], prod[items[i]._id])]

\* the store and the response after userCart(u, items)
\* the handler after Cart.findOneAndRemove, on the store that call left
userCartBuild(removed, u, items, prod) ==
  LET outcomes == [i \in 1..Len(items) |-> ItemOutcome(items[i], prod)]
  IN  IF \E i \in 1..Len(items) : outcomes[i] # "line"
        THEN \* Promise.all rejects, or newCart.validate() rejects the response
             \* object that stands where a line should be: nothing is saved
             [status |-> "rejected", carts |-> removed]
        ELSE LET products == userCartLines(items, prod)
                 newCart == NewCart(u, products, ReduceTotal(products))
             IN  IF ~Validate(newCart)
                   THEN [status |-> "error", carts |-> removed]
                   ELSE [status |-> "ok",
                         carts |-> Insert(removed, newCart)]

userCartResult(cs, u, items, prod) ==
  userCartBuild(FindOneAndRemove(cs, u), u, items, prod)

userCart(u, items) ==
  LET r == userCartResult(carts, u, items, product)
  IN  /\ Len(items) <= MaxLines
      /\ carts' = r.carts
      /\ last' = Response("userCart", u, r.status, items)
      /\ UNCHANGED <<requests, orders, product, coupons, user>>

(***************************************************************************)
(* updateUserCart: PUT /cart/update-cart, merges items into the cart.      *)
(***************************************************************************)
\* existingCart.products.find(p => p.product === item._id && p.color === ...)
FindLine(lines, id, color) ==
  IF \E i \in 1..Len(lines) : lines[i].product = id /\ lines[i].color = color
    THEN CHOOSE i \in 1..Len(lines) :
           /\ lines[i].product = id /\ lines[i].color = color
           /\ \A j \in 1..(i - 1) :
                ~(lines[j].product = id /\ lines[j].color = color)
    ELSE 0

\* a merge that replaces the count of the line by the incoming count
AddCountReplacing(line, item) == [line EXCEPT !.count = item.count]

\* existingProductInCart.count += item.count
AddCount(line, item) == [line EXCEPT !.count = @ + item.count]

\* the for loop over productsToAdd: the lines of the loaded document, the
\* new entries collected so far, and whether an item threw
RECURSIVE MergeLoop(_, _, _, _)
MergeLoop(items, existing, additional, prod) ==
  IF items = <<>>
    THEN [thrown |-> FALSE, products |-> existing, additional |-> additional]
  ELSE LET item == Head(items)
       IN  IF \/ ~ProductFound(item, prod)
              \/ ~StockOk(item, prod[item._id])
              \/ ~ColorOk(item, prod[item._id])
             THEN [thrown |-> TRUE, products |-> existing,
                   additional |-> additional]
           ELSE LET i == FindLine(existing, item._id,
                                  ResolveColor(item, prod[item._id]))
                IN  IF i # 0
                      THEN MergeLoop(Tail(items),
                                     [existing EXCEPT ![i] = AddCount(@, item)],
                                     additional, prod)
                      ELSE MergeLoop(Tail(items), existing,
                                     Append(additional,
                                            CartLine(item, prod[item._id])),
                                     prod)

\* existingCart.products.push(...); existingCart.cartTotal += reduce(...)
MergedCart(cart, m) ==
  [cart EXCEPT !.products = m.products \o m.additional,
               !.cartTotal = @ + ReduceTotal(m.additional)]

\* document.save() of the document loaded from index i
Save(cs, u, i, doc) == [cs EXCEPT ![u][i] = PreSave(doc)]

\* a catch block that saves what the loop had merged before the throw
OnMergeErrorSaving(cs, u, i, loaded) == Save(cs, u, i, loaded)

\* the catch block: the loaded document is dropped, nothing is written
OnMergeError(cs, u, i, loaded) == cs

updateUserCartResult(cs, u, items, prod) ==
  LET i == FindOne(cs, u)
  IN  IF i = 0 THEN [status |-> "nocart", carts |-> cs]
      ELSE LET m == MergeLoop(items, cs[u][i].products, <<>>, prod)
               merged == MergedCart(cs[u][i], m)
           IN  IF m.thrown
                 THEN [status |-> "rejected",
                       carts |-> OnMergeError(cs, u, i,
                                   [cs[u][i] EXCEPT !.products = m.products])]
               ELSE IF ~Validate(merged)
                 THEN [status |-> "invalid",
                       carts |-> OnMergeError(cs, u, i, merged)]
               ELSE [status |-> "ok", carts |-> Save(cs, u, i, merged)]

\* the bounds of the model on the cart a request leaves
WithinBounds(cs) ==
  \A u \in DOMAIN cs : \A i \in 1..Len(cs[u]) :
    /\ Len(cs[u][i].products) <= MaxLines
    /\ \A k \in 1..Len(cs[u][i].products) :
         cs[u][i].products[k].count <= MaxCount

updateUserCart(u, items) ==
  LET r == updateUserCartResult(carts, u, items, product)
  IN  /\ WithinBounds(r.carts)
      /\ carts' = r.carts
      /\ last' = Response("updateUserCart", u, r.status, items)
      /\ UNCHANGED <<requests, orders, product, coupons, user>>

(***************************************************************************)
(* emptyCart: DELETE /empty-cart.                                          *)
(***************************************************************************)
\* an emptying that leaves the discounted total as it was
EmptiedCartKeepingDiscount(cart) ==
  [cart EXCEPT !.products = <<>>, !.cartTotal = 0]

\* userCart.products = []; userCart.cartTotal = 0;
\* userCart.totalAfterDiscount = 0
EmptiedCart(cart) ==
  [cart EXCEPT !.products = <<>>, !.cartTotal = 0, !.totalAfterDiscount = 0]

emptyCartResult(cs, u) ==
  LET i == FindOne(cs, u)
  IN  IF i = 0 THEN [status |-> "nocart", carts |-> cs]
      ELSE [status |-> "ok",
            carts |-> Save(cs, u, i, EmptiedCart(cs[u][i]))]

emptyCart(u) ==
  LET r == emptyCartResult(carts, u)
  IN  /\ carts' = r.carts
      /\ last' = Response("emptyCart", u, r.status, NoInput)
      /\ UNCHANGED <<requests, orders, product, coupons, user>>

(***************************************************************************)
(* applyCoupon: POST /cart/apply-coupon.                                   *)
(***************************************************************************)
\* Coupon.findOne({ name }): the documents of that name (one or none)
\* a lookup that takes any coupon for any code
FindCouponAny(cps, name) == cps

FindCoupon(cps, name) == { c \in cps : c.name = name }

\* Number.prototype.toFixed(2) of x ten-thousandths, in hundredths. The prices
\* and discounts of the model never put x half-way between two hundredths,
\* where the binary representation of the number decides.
ToFixed2(x) == (x + 50) \div 100

\* a discount taken off the discounted total the cart already carries
DiscountedTotalStacked(cart, coupon) ==
  ToFixed2(cart.totalAfterDiscount * 100
             - cart.totalAfterDiscount * coupon.discount)

\* (cart.cartTotal - (cart.cartTotal * validCoupon.discount) / 100).toFixed(2)
DiscountedTotal(cart, coupon) ==
  ToFixed2(cart.cartTotal * 100 - cart.cartTotal * coupon.discount)

\* an update document that overwrites cartTotal too
CouponUpdateBothTotals(cart, totalAfterDiscount) ==
  [cart EXCEPT !.totalAfterDiscount = totalAfterDiscount,
               !.cartTotal = totalAfterDiscount, !.couponed = TRUE]

\* the update document of Cart.findOneAndUpdate: { totalAfterDiscount }
CouponUpdate(cart, totalAfterDiscount) ==
  [cart EXCEPT !.totalAfterDiscount = totalAfterDiscount, !.couponed = TRUE]

applyCouponResult(cs, cps, u, code) ==
  LET validCoupon == FindCoupon(cps, ToUpperCase(code))
      i == FindOne(cs, u)
  IN  IF validCoupon = {} THEN [status |-> "invalidcoupon", carts |-> cs]
      ELSE IF i = 0 THEN [status |-> "nocart", carts |-> cs]
      ELSE LET coupon == CHOOSE c \in validCoupon : TRUE
           IN  [status |-> "ok",
                carts |-> [cs EXCEPT ![u][i] =
                             CouponUpdate(@, DiscountedTotal(cs[u][i], coupon))]]

applyCoupon(u, code) ==
  LET r == applyCouponResult(carts, coupons, u, code)
  IN  /\ carts' = r.carts
      /\ last' = [Response("applyCoupon", u, r.status, code)
                    EXCEPT !.input = code]
      /\ UNCHANGED <<requests, orders, product, coupons, user>>

(***************************************************************************)
(* createOrder: POST /cart/cash-order.                                     *)
(***************************************************************************)
\* an address check that asks for the city only
AddressCompleteCityOnly(usr) == usr.address.city # ""

\* !user.address || !user.address.city || !user.address.pincode
AddressComplete(usr) ==
  usr.address.city # "" /\ usr.address.pincode # ""

\* an amount that reads the prices of the catalog when the order is placed
RECURSIVE CatalogSum(_)
CatalogSum(lines) ==
  IF lines = <<>> THEN 0
  ELSE product[Head(lines).product].price * Head(lines).count
       + CatalogSum(Tail(lines))

FinalAmountRepriced(cart, couponApplied) == CatalogSum(cart.products)

\* couponApplied && userCart.totalAfterDiscount ? ... : userCart.cartTotal
FinalAmount(cart, couponApplied) ==
  IF couponApplied /\ cart.totalAfterDiscount # 0
    THEN cart.totalAfterDiscount
    ELSE cart.cartTotal

\* productOrderSchema keeps product, count and color of a cart line
OrderLines(lines) ==
  [k \in 1..Len(lines) |->
     [product |-> lines[k].product, count |-> lines[k].count,
      color |-> lines[k].color]]

NewOrder(u, cart, amount) ==
  [products |-> OrderLines(cart.products),
   paymentIntent |-> [method |-> "COD", amount |-> amount,
                      status |-> "Cash On Delivery"],
   orderby |-> u,
   orderStatus |-> "Processing"]

\* an update that takes the stock and forgets the sold counter
IncStockOnlyQuantity(p, line) == [p EXCEPT !.quantity = @ - line.count]

\* an update that counts the sale and leaves the stock
IncStockOnlySold(p, line) == [p EXCEPT !.sold = @ + line.count]

\* $inc: { quantity: -item.count, sold: +item.count }
IncStock(p, line) ==
  [p EXCEPT !.quantity = @ - line.count, !.sold = @ + line.count]

\* Product.bulkWrite(bulkOperations): one updateOne per line, in order
RECURSIVE BulkWrite(_, _)
BulkWrite(prod, lines) ==
  IF lines = <<>> THEN prod
  ELSE LET line == Head(lines)
       IN  BulkWrite(IF line.product \in DOMAIN prod
                       THEN [prod EXCEPT ![line.product] = IncStock(@, line)]
                       ELSE prod,
                     Tail(lines))

\* a reset of the cart that leaves the discounted total as it was
ClearedCartKeepingDiscount(cart) ==
  [cart EXCEPT !.products = <<>>, !.cartTotal = 0]

\* userCart.products = []; userCart.cartTotal = 0;
\* userCart.totalAfterDiscount = userCart.cartTotal
ClearedCart(cart) ==
  LET zeroed == [cart EXCEPT !.products = <<>>, !.cartTotal = 0]
  IN  [zeroed EXCEPT !.totalAfterDiscount = zeroed.cartTotal]

createOrderResult(cs, os, prod, usr, u, COD, couponApplied) ==
  LET i == FindOne(cs, u)
      same == [carts |-> cs, orders |-> os, product |-> prod]
  IN  IF ~COD THEN [status |-> "nocod"] @@ same
      ELSE IF ~AddressComplete(usr[u]) THEN [status |-> "address"] @@ same
      ELSE IF i = 0 THEN [status |-> "nocart"] @@ same
      ELSE [status |-> "ok",
            orders |-> Append(os, NewOrder(u, cs[u][i],
                                           FinalAmount(cs[u][i], couponApplied))),
            product |-> BulkWrite(prod, cs[u][i].products),
            carts |-> Save(cs, u, i, ClearedCart(cs[u][i]))]

\* the handler, while the Order collection holds at most max documents
createOrderWithin(u, COD, couponApplied, max) ==
  LET r == createOrderResult(carts, orders, product, user, u, COD, couponApplied)
  IN  /\ Len(r.orders) <= max
      /\ carts' = r.carts
      /\ orders' = r.orders
      /\ product' = r.product
      /\ last' = Response("createOrder", u, r.status, couponApplied)
      /\ UNCHANGED <<requests, coupons, user>>

createOrder(u, COD, couponApplied) ==
  createOrderWithin(u, COD, couponApplied, MaxOrders)

\* the handler when Product.bulkWrite throws after applied of the updates:
\* the order is saved, the catch block answers 500, the cart is not reset
createOrderStockFailure(u, couponApplied, applied) ==
  LET i == FindOne(carts, u)
      cart == carts[u][i]
  IN  /\ AddressComplete(user[u])
      /\ i # 0
      /\ applied < Len(cart.products)
      /\ Len(orders) < MaxOrdersKept
      /\ orders' = Append(orders,
                          NewOrder(u, cart, FinalAmount(cart, couponApplied)))
      /\ product' = BulkWrite(product, SubSeq(cart.products, 1, applied))
      /\ last' = Response("createOrder", u, "error", NoInput)
      /\ UNCHANGED <<requests, carts, coupons, user>>

(***************************************************************************)
(* updateOrderStatus: PUT /order/update-order-status/:id (admin).          *)
(* An order's id is its position in the Order collection.                  *)
(***************************************************************************)
validStatuses ==
  <<"not processed", "in transit", "processing", "dispatched", "cancelled",
    "delivered">>

paymentStatuses ==
  <<"processing", "waiting", "payment successful", "payment failed",
    "declined", "cash on delivery">>

\* the enum of orderSchema.orderStatus, which runValidators applies
OrderStatusEnum ==
  {"Not Processed", "In Transit", "Processing", "Dispatched", "Cancelled",
   "Delivered"}

\* what validateStatus returns for a string outside the list
False == ""

\* a validation that accepts every string as it is
validateStatusAcceptingAll(status, statuses) ==
  TitleCase(ToLowerCase(status))

validateStatus(status, statuses) ==
  LET formattedStatus == ToLowerCase(status)
  IN  IF ~Includes(statuses, formattedStatus) THEN False
      ELSE TitleCase(formattedStatus)

\* an update that writes the order's products as well
StatusUpdateDroppingLines(order, Status, paymentStatusFormatted) ==
  [order EXCEPT !.orderStatus = Status,
                !.paymentIntent.status = paymentStatusFormatted,
                !.products = <<>>]

\* { orderStatus: Status, "paymentIntent.status": paymentStatusFormatted }
StatusUpdate(order, Status, paymentStatusFormatted) ==
  [order EXCEPT !.orderStatus = Status,
                !.paymentIntent.status = paymentStatusFormatted]

updateOrderStatusResult(os, id, orderStatus, paymentStatus) ==
  LET Status == validateStatus(orderStatus, validStatuses)
      paymentStatusFormatted == validateStatus(paymentStatus, paymentStatuses)
  IN  IF Status = False THEN [status |-> "invalidOrderStatus", orders |-> os]
      ELSE IF paymentStatusFormatted = False
        THEN [status |-> "invalidPaymentStatus", orders |-> os]
      ELSE IF id \notin 1..Len(os) THEN [status |-> "notfound", orders |-> os]
      ELSE IF Status \notin OrderStatusEnum
        THEN [status |-> "error", orders |-> os]
      ELSE [status |-> "ok",
            orders |-> [os EXCEPT ![id] =
                          StatusUpdate(@, Status, paymentStatusFormatted)]]

\* req.params.id
OrderIds == 1..(MaxOrdersKept + 1)

\* req.body.orderStatus
OrderStatusInputs == {"Dispatched", "DELIVERED", "Cancelled", "Shipped"}

\* req.body.paymentStatus
PaymentStatusInputs == {"Payment Successful", "Refunded"}

Admin == "admin"

updateOrderStatus(id, orderStatus, paymentStatus) ==
  LET r == updateOrderStatusResult(orders, id, orderStatus, paymentStatus)
  IN  /\ orders' = r.orders
      /\ last' = [op |-> "updateOrderStatus", user |-> Admin,
                  status |-> r.status,
                  input |-> [id |-> id, orderStatus |-> orderStatus,
                             paymentStatus |-> paymentStatus]]
      /\ UNCHANGED <<requests, carts, product, coupons, user>>

(***************************************************************************)
(* getOrders: GET /order/get-orders, the orders of the requesting user.    *)
(***************************************************************************)
\* a query that forgets the filter
FindOrdersOfAll(os, u) == os

\* Order.find({ orderby: userId })
FindOrders(os, u) == SelectSeq(os, LAMBDA o : o.orderby = u)

getOrdersResult(os, u) ==
  LET userOrders == FindOrders(os, u)
  IN  IF Len(userOrders) = 0 THEN [status |-> "notfound", data |-> <<>>]
      ELSE [status |-> "ok", data |-> userOrders]

getOrders(u) ==
  LET r == getOrdersResult(orders, u)
  IN  /\ last' = Response("getOrders", u, r.status, r.data)
      /\ UNCHANGED <<requests, carts, orders, product, coupons, user>>

(***************************************************************************)
(* updateProduct: PUT /update-product/:id (admin), here a change of price.  *)
(***************************************************************************)
\* req.body.price
Prices == {150, 200}

updateProductResult(prod, id, price) ==
  IF id \notin DOMAIN prod THEN [status |-> "notfound", product |-> prod]
  ELSE [status |-> "ok", product |-> [prod EXCEPT ![id].price = price]]

updateProduct(id, price) ==
  LET r == updateProductResult(product, id, price)
  IN  /\ product' = r.product
      /\ last' = Response("updateProduct", Admin, r.status, NoInput)
      /\ UNCHANGED <<requests, carts, orders, coupons, user>>

(***************************************************************************)
(* Requests of one user that run at the same time.  A handler gives way at *)
(* every await; the steps below are loginUser and userCart cut at the      *)
(* await between their read (or removal) of the cart and their save.  The  *)
(* catalog does not change here, so the product lookups of userCart are    *)
(* part of its second step.                                                *)
(***************************************************************************)
\* the requests in flight
Slots == {"r1", "r2"}

Idle == [pc |-> "idle", user |-> "none", items |-> <<>>, found |-> FALSE]

\* let userCart = await Cart.findOne({ orderby: findUser._id })
loginUserFind(r, u) ==
  /\ requests[r].pc = "idle"
  /\ requests' = [requests EXCEPT ![r] =
                    [pc |-> "loginUser", user |-> u, items |-> <<>>,
                     found |-> FindOne(carts, u) # 0]]
  /\ UNCHANGED <<carts, orders, product, coupons, user, last>>

\* if (!userCart) { userCart = new Cart(...); await userCart.save() }
loginUserSave(r) ==
  /\ requests[r].pc = "loginUser"
  /\ carts' = IF ~requests[r].found
                THEN Insert(carts, NewCart(requests[r].user, <<>>, 0))
                ELSE carts
  /\ Len(carts'[requests[r].user]) <= MaxCarts
  /\ requests' = [requests EXCEPT ![r] = Idle]
  /\ last' = Response("loginUser", requests[r].user, "ok", NoInput)
  /\ UNCHANGED <<orders, product, coupons, user>>

\* await Cart.findOneAndRemove({ orderby: userId })
userCartRemove(r, u, items) ==
  /\ requests[r].pc = "idle"
  /\ carts' = FindOneAndRemove(carts, u)
  /\ requests' = [requests EXCEPT ![r] =
                    [pc |-> "userCart", user |-> u, items |-> items,
                     found |-> FALSE]]
  /\ UNCHANGED <<orders, product, coupons, user, last>>

\* the product lookups, newCart.validate() and await newCart.save()
userCartSave(r) ==
  LET q == requests[r]
      built == userCartBuild(carts, q.user, q.items, product)
  IN  /\ q.pc = "userCart"
      /\ carts' = built.carts
      /\ Len(carts'[q.user]) <= MaxCarts
      /\ requests' = [requests EXCEPT ![r] = Idle]
      /\ last' = Response("userCart", q.user, built.status, q.items)
      /\ UNCHANGED <<orders, product, coupons, user>>

(***************************************************************************)
(* createOrder cut at its awaits: the reads of the user and the cart, the  *)
(* save of the order, the bulk write of the stock, the save of the cart.   *)
(* The cart document a request read carries the version (__v) it had: the  *)
(* save of the emptied products array asks for that version and raises it, *)
(* so it fails when another request has saved the array in between (stale).*)
(***************************************************************************)
\* await User.findById(userId); await Cart.findOne({ orderby: userId })
createOrderFind(r, u, couponApplied) ==
  LET i == FindOne(carts, u)
  IN  /\ requests[r].pc = "idle"
      /\ AddressComplete(user[u])
      /\ i # 0
      /\ requests' = [requests EXCEPT ![r] =
                        [pc |-> "createOrder", user |-> u, cart |-> carts[u][i],
                         couponApplied |-> couponApplied, stale |-> FALSE]]
      /\ UNCHANGED <<carts, orders, product, coupons, user, last>>

\* await new Order({...}).save()
createOrderSave(r) ==
  LET q == requests[r]
  IN  /\ q.pc = "createOrder"
      /\ Len(orders) < MaxOrdersKept
      /\ orders' = Append(orders,
                          NewOrder(q.user, q.cart,
                                   FinalAmount(q.cart, q.couponApplied)))
      /\ requests' = [requests EXCEPT ![r].pc = "ordered"]
      /\ UNCHANGED <<carts, product, coupons, user, last>>

\* await Product.bulkWrite(bulkOperations)
createOrderBulkWrite(r) ==
  LET q == requests[r]
  IN  /\ q.pc = "ordered"
      /\ product' = BulkWrite(product, q.cart.products)
      /\ requests' = [requests EXCEPT ![r].pc = "stocked"]
      /\ UNCHANGED <<carts, orders, coupons, user, last>>

\* the other requests that hold the cart of u as it was before a save of
\* its products array
Outdated(r, u) ==
  [s \in Slots |->
     IF s = r THEN Idle
     ELSE IF requests[s].pc \in {"createOrder", "ordered", "stocked"}
             /\ requests[s].user = u
       THEN [requests[s] EXCEPT !.stale = TRUE]
     ELSE requests[s]]

\* userCart.products = []; ...; await userCart.save(); the response
createOrderClear(r) ==
  LET q == requests[r]
      i == FindOne(carts, q.user)
  IN  /\ q.pc = "stocked"
      /\ IF q.stale
           THEN /\ last' = Response("createOrder", q.user, "error", NoInput)
                /\ requests' = [requests EXCEPT ![r] = Idle]
                /\ UNCHANGED carts
           ELSE /\ carts' = Save(carts, q.user, i, ClearedCart(carts[q.user][i]))
                /\ last' = Response("createOrder", q.user, "ok",
                                    q.couponApplied)
                /\ requests' = Outdated(r, q.user)
      /\ UNCHANGED <<orders, product, coupons, user>>

(***************************************************************************)
(* updateUserCart cut at its await between Cart.findOne and the save.  The *)
(* save writes what the request changed on the document it read: a count  *)
(* by $set on the position of the line, which asks for the version read;   *)
(* new lines by $push, which raises the version; cartTotal by $set when    *)
(* lines were added.  A request that has answered keeps what it read until *)
(* the next request takes its place.                                       *)
(***************************************************************************)
\* const existingCart = await Cart.findOne({ orderby: userId })
updateUserCartFind(r, u, items) ==
  LET i == FindOne(carts, u)
  IN  /\ requests[r].pc \in {"idle", "answered"}
      /\ i # 0
      /\ requests' = [requests EXCEPT ![r] =
                        [pc |-> "updateUserCart", user |-> u, items |-> items,
                         cart |-> carts[u][i], stale |-> FALSE]]
      /\ UNCHANGED <<carts, orders, product, coupons, user, last>>

\* whether the loop changed the count of a line of the document read
CountsChanged(read, m) ==
  \E k \in 1..Len(read.products) :
    m.products[k].count # read.products[k].count

\* a save that adds the increase to the count the store holds
SaveDeltaIncrementing(doc, read, m) ==
  [doc EXCEPT
     !.products =
        [k \in 1..Len(doc.products) |->
           IF k <= Len(read.products)
             THEN [doc.products[k] EXCEPT
                     !.count = @ + m.products[k].count - read.products[k].count]
             ELSE doc.products[k]] \o m.additional,
     !.cartTotal = IF m.additional # <<>>
                     THEN read.cartTotal + ReduceTotal(m.additional)
                     ELSE @]

\* existingCart.save(): the changed paths of the document read, written to
\* the stored document doc
SaveDelta(doc, read, m) ==
  [doc EXCEPT
     !.products =
        [k \in 1..Len(doc.products) |->
           IF /\ k <= Len(read.products)
              /\ m.products[k].count # read.products[k].count
             THEN [doc.products[k] EXCEPT !.count = m.products[k].count]
             ELSE doc.products[k]] \o m.additional,
     !.cartTotal = IF m.additional # <<>>
                     THEN read.cartTotal + ReduceTotal(m.additional)
                     ELSE @]

\* the other requests that hold the document as it was before a $push
OutdatedByPush(r, u, pushed) ==
  [s \in Slots |->
     IF s # r /\ pushed /\ requests[s].pc = "updateUserCart"
        /\ requests[s].user = u
       THEN [requests[s] EXCEPT !.stale = TRUE]
     ELSE requests[s]]

\* the bounds of the model on the cart requests that race leave
WithinRaceBounds(cs) ==
  \A u \in Users : \A i \in 1..Len(cs[u]) :
    /\ Len(cs[u][i].products) <= MaxLines + 1
    /\ \A k \in 1..Len(cs[u][i].products) :
         cs[u][i].products[k].count <= MaxCount + 1

\* the loop, existingCart.validate(), existingCart.save() and the response
updateUserCartSave(r) ==
  LET q == requests[r]
      i == FindOne(carts, q.user)
      m == MergeLoop(q.items, q.cart.products, <<>>, product)
      status == IF m.thrown THEN "rejected"
                ELSE IF ~Validate(MergedCart(q.cart, m)) THEN "invalid"
                ELSE IF q.stale /\ CountsChanged(q.cart, m) THEN "error"
                ELSE "ok"
  IN  /\ q.pc = "updateUserCart"
      /\ carts' = IF status = "ok"
                    THEN [carts EXCEPT ![q.user][i] = SaveDelta(@, q.cart, m)]
                    ELSE carts
      /\ WithinRaceBounds(carts')
      /\ requests' =
           [OutdatedByPush(r, q.user, status = "ok" /\ m.additional # <<>>)
              EXCEPT ![r] = [q EXCEPT !.pc = "answered"]]
      /\ last' = Response("updateUserCart", q.user, status, q.items)
      /\ UNCHANGED <<orders, product, coupons, user>>

(***************************************************************************)
(* The responses of an add-cart request.  The route runs timeoutMiddleware *)
(* before userCart: a timer answers 408 when it fires, and the finish      *)
(* event of the response clears it.  json counts the calls of              *)
(* res.status(...).json(...) of the request and statusCode is the status   *)
(* of the response that went out, 0 while none has.  A call after the      *)
(* response went out throws ERR_HTTP_HEADERS_SENT: in the try block it     *)
(* leads to the catch block, whose call throws to errorHandler, which      *)
(* calls once more.                                                        *)
(***************************************************************************)
\* res.status(code).json(...) called n times
Json(q, code, n) ==
  [q EXCEPT !.json = @ + n,
            !.statusCode = IF @ = 0 /\ n > 0 THEN code ELSE @]

\* the items of cart for which Product.findById returns null
Unknown(items, prod) ==
  {i \in 1..Len(items) : ~ProductFound(items[i], prod)}

\* timeoutMiddleware(15000): setTimeout, res.on("finish", ...), next()
timeoutMiddleware(r, u, items) ==
  /\ requests[r].pc \in {"idle", "returned"}
  /\ requests[r].pc = "returned" => requests[r].timer # "set"
  /\ requests' = [requests EXCEPT ![r] =
                    [pc |-> "userCart", user |-> u, items |-> items,
                     timer |-> "set", json |-> 0, statusCode |-> 0]]
  /\ UNCHANGED <<carts, orders, product, coupons, user, last>>

\* the callback of setTimeout
timeoutFire(r) ==
  /\ requests[r].pc \in {"userCart", "userCartAnswer", "returned"}
  /\ requests[r].timer = "set"
  /\ requests' = [requests EXCEPT ![r] =
                    [Json(@, 408, 1) EXCEPT !.timer = "fired"]]
  /\ UNCHANGED <<carts, orders, product, coupons, user, last>>

\* res.on("finish", () => clearTimeout(timeout))
finish(r) ==
  /\ requests[r].pc \in {"userCart", "userCartAnswer", "returned"}
  /\ requests[r].statusCode # 0
  /\ requests[r].timer = "set"
  /\ requests' = [requests EXCEPT ![r].timer = "cleared"]
  /\ UNCHANGED <<carts, orders, product, coupons, user, last>>

\* Cart.findOneAndRemove and the callbacks of cart.map: the callback of an
\* unknown product calls res.status(400).json(...)
userCartProducts(r) ==
  LET q == requests[r]
  IN  /\ q.pc = "userCart"
      /\ carts' = FindOneAndRemove(carts, q.user)
      /\ requests' = [requests EXCEPT ![r] =
                        [Json(q, 400, Cardinality(Unknown(q.items, product)))
                           EXCEPT !.pc = "userCartAnswer"]]
      /\ UNCHANGED <<orders, product, coupons, user, last>>

\* the calls of res.status(...).json(...) that end the handler
Answers(q, status) ==
  IF q.statusCode = 0 THEN 1
  ELSE IF status = "ok" THEN 3
  ELSE 2

\* the status of the response of userCart
StatusCode(status) ==
  IF status = "ok" THEN 201 ELSE IF status = "error" THEN 500 ELSE 400

\* newCart.validate(), newCart.save() and the response, or the catch block
userCartAnswer(r) ==
  LET q == requests[r]
      built == userCartBuild(carts, q.user, q.items, product)
  IN  /\ q.pc = "userCartAnswer"
      /\ carts' = built.carts
      /\ Len(carts'[q.user]) <= MaxCarts
      /\ requests' = [requests EXCEPT ![r] =
                        [Json(q, StatusCode(built.status),
                              Answers(q, built.status))
                           EXCEPT !.pc = "returned"]]
      /\ last' = Response("userCart", q.user, built.status, q.items)
      /\ UNCHANGED <<orders, product, coupons, user>>

Init ==
  /\ carts = [u \in Users |-> <<>>]
  /\ orders = <<>>
  /\ product = InitProduct
  /\ coupons = InitCoupons
  /\ user = InitUser
  /\ last = Response("none", "none", "none", NoInput)
  /\ requests = [r \in Slots |-> Idle]

\* the requests of the users us
Requesting(us) ==
  \/ \E u \in us : loginUser(u)
  \/ \E u \in us, items \in Requests : userCart(u, items)
  \/ \E u \in us, items \in Requests : updateUserCart(u, items)
  \/ \E u \in us : emptyCart(u)
  \/ \E u \in us, code \in CouponCodes : applyCoupon(u, code)
  \/ \E u \in us, COD \in BOOLEAN, couponApplied \in BOOLEAN :
       createOrder(u, COD, couponApplied)

Next == Requesting(Shoppers)

Spec == Init /\ [][Next]_vars

\* the same requests, sent by a user who registered without a postal code
NoAddressShoppers == {"u2"}

NextNoAddress == Requesting(NoAddressShoppers)

SpecNoAddress == Init /\ [][NextNoAddress]_vars

(***************************************************************************)
(* The life of orders: one shopper fills the cart and places orders, the   *)
(* administrator changes order statuses and catalog prices.                *)
(***************************************************************************)
\* req.body.cart of the shopper
Baskets ==
  {<<[_id |-> "p1", count |-> 1, color |-> "red"]>>,
   <<[_id |-> "p2", count |-> 1, color |-> NoColor]>>}

\* the products whose price the administrator changes
Repriced == {"p1", UnknownId}

NextOrders ==
  \/ \E u \in Shoppers, items \in Baskets : userCart(u, items)
  \/ \E u \in Shoppers, couponApplied \in BOOLEAN :
       createOrderWithin(u, TRUE, couponApplied, MaxOrdersKept)
  \/ \E id \in OrderIds, orderStatus \in OrderStatusInputs,
        paymentStatus \in PaymentStatusInputs :
       updateOrderStatus(id, orderStatus, paymentStatus)
  \/ \E id \in Repriced, price \in Prices : updateProduct(id, price)

SpecOrders == Init /\ [][NextOrders]_vars

(***************************************************************************)
(* Two shoppers with complete addresses who buy from the same catalog.     *)
(***************************************************************************)
Buyers == {"u1", "u3"}

\* req.body.cart of the two shoppers
SharedBaskets ==
  {<<[_id |-> "p2", count |-> 1, color |-> NoColor]>>,
   <<[_id |-> "p1", count |-> MaxCount, color |-> NoColor]>>}

\* req.body.productsToAdd of the two shoppers
SharedAdditions == {<<[_id |-> "p1", count |-> 1, color |-> "red"]>>}

NextShared ==
  \/ \E u \in Buyers, items \in SharedBaskets : userCart(u, items)
  \/ \E u \in Buyers, items \in SharedAdditions : updateUserCart(u, items)
  \/ \E u \in Buyers : emptyCart(u)
  \/ \E u \in Buyers, code \in {"save10"} : applyCoupon(u, code)
  \/ \E u \in Buyers, couponApplied \in BOOLEAN :
       createOrderWithin(u, TRUE, couponApplied, MaxOrdersKept)
  \/ \E u \in Buyers : getOrders(u)

SpecShared == Init /\ [][NextShared]_vars

(***************************************************************************)
(* Two createOrder requests of one shopper at a time, on a cart the        *)
(* shopper has submitted once.                                             *)
(***************************************************************************)
\* the carts after the one submission, with or without a coupon
SubmittedCarts ==
  LET none == [u \in Users |-> <<>>]
      built == {userCartResult(none, u, items, InitProduct).carts :
                  u \in Shoppers, items \in SharedBaskets}
  IN  built \cup {applyCouponResult(cs, InitCoupons, u, "save10").carts :
                    cs \in built, u \in Shoppers}

InitSubmitted ==
  /\ carts \in SubmittedCarts
  /\ orders = <<>>
  /\ product = InitProduct
  /\ coupons = InitCoupons
  /\ user = InitUser
  /\ last = Response("none", "none", "none", NoInput)
  /\ requests = [r \in Slots |-> Idle]

NextOrderRace ==
  \/ \E r \in Slots, u \in Shoppers, couponApplied \in BOOLEAN :
       createOrderFind(r, u, couponApplied)
  \/ \E r \in Slots : createOrderSave(r)
  \/ \E r \in Slots : createOrderBulkWrite(r)
  \/ \E r \in Slots : createOrderClear(r)

SpecOrderRace == InitSubmitted /\ [][NextOrderRace]_vars

(***************************************************************************)
(* Orders of one shopper while the stock update may fail.                  *)
(***************************************************************************)
NextStockFailure ==
  \/ \E u \in Shoppers, items \in Requests : userCart(u, items)
  \/ \E u \in Shoppers, couponApplied \in BOOLEAN :
       createOrderWithin(u, TRUE, couponApplied, MaxOrdersKept)
  \/ \E u \in Shoppers, couponApplied \in BOOLEAN, applied \in 0..(MaxLines - 1) :
       createOrderStockFailure(u, couponApplied, applied)

SpecStockFailure == Init /\ [][NextStockFailure]_vars

(***************************************************************************)
(* Two updateUserCart requests of one shopper at a time, on a cart the     *)
(* shopper has submitted.  Every request adds one item.                    *)
(***************************************************************************)
\* req.body.productsToAdd of the racing merges
MergeAdditions ==
  {<<[_id |-> "p2", count |-> 1, color |-> NoColor]>>,
   <<[_id |-> "p1", count |-> 1, color |-> NoColor]>>,
   <<[_id |-> "p1", count |-> 1, color |-> "green"]>>}

NextMergeRace ==
  \/ \E r \in Slots, u \in Shoppers, items \in MergeAdditions :
       updateUserCartFind(r, u, items)
  \/ \E r \in Slots : updateUserCartSave(r)

SpecMergeRace == InitSubmitted /\ [][NextMergeRace]_vars

(***************************************************************************)
(* The add-cart requests of a shopper with their timers.                   *)
(***************************************************************************)
\* req.body.cart of the add-cart requests: a product of the catalog, an
\* unknown product, a colour the product does not have, and a cart with a
\* product of the catalog and an unknown one
AddCartBodies ==
  {<<[_id |-> "p2", count |-> 1, color |-> NoColor]>>,
   <<[_id |-> UnknownId, count |-> 1, color |-> NoColor]>>,
   <<[_id |-> "p1", count |-> 1, color |-> "green"]>>,
   <<[_id |-> "p2", count |-> 1, color |-> NoColor],
     [_id |-> UnknownId, count |-> 1, color |-> NoColor]>>}

NextResponses ==
  \/ \E r \in Slots, u \in Shoppers, items \in AddCartBodies :
       timeoutMiddleware(r, u, items)
  \/ \E r \in Slots : timeoutFire(r)
  \/ \E r \in Slots : finish(r)
  \/ \E r \in Slots : userCartProducts(r)
  \/ \E r \in Slots : userCartAnswer(r)

SpecResponses == Init /\ [][NextResponses]_vars

(***************************************************************************)
(* Coupons with their expiry dates, and requests sent at the time Now.     *)
(* Dates are days.                                                         *)
(***************************************************************************)
\* the day of the requests
Now == 2

\* the Coupon collection: OLD30 expired the day before the requests
DatedCoupons ==
  {[name |-> "SAVE10", discount |-> 10, expiry |-> 3],
   [name |-> "OLD30", discount |-> 30, expiry |-> 1]}

\* req.body.coupon
DatedCodes == {"save10", "old30"}

InitDated ==
  /\ carts = [u \in Users |-> <<>>]
  /\ orders = <<>>
  /\ product = InitProduct
  /\ coupons = DatedCoupons
  /\ user = InitUser
  /\ last = Response("none", "none", "none", NoInput)
  /\ requests = [r \in Slots |-> Idle]

NextDated ==
  \/ \E u \in Shoppers, items \in Requests : userCart(u, items)
  \/ \E u \in Shoppers, code \in DatedCodes : applyCoupon(u, code)
  \/ \E u \in Shoppers, couponApplied \in BOOLEAN :
       createOrder(u, TRUE, couponApplied)

SpecDated == InitDated /\ [][NextDated]_vars

(***************************************************************************)
(* Two requests of one shopper at a time, logins and cart submissions.     *)
(***************************************************************************)
\* req.body.cart of the racing submissions
RaceBaskets ==
  Baskets \cup {<<[_id |-> "p1", count |-> 1, color |-> "green"]>>}

NextRace ==
  \/ \E r \in Slots, u \in Shoppers : loginUserFind(r, u)
  \/ \E r \in Slots : loginUserSave(r)
  \/ \E r \in Slots, u \in Shoppers, items \in RaceBaskets :
       userCartRemove(r, u, items)
  \/ \E r \in Slots : userCartSave(r)

SpecRace == Init /\ [][NextRace]_vars

(***************************************************************************)
(* The properties.  The owner's cart is the document Cart.findOne yields.  *)
(***************************************************************************)
HasCart(cs, u) == FindOne(cs, u) # 0
CartOf(cs, u) == cs[u][FindOne(cs, u)]

\* the sum of price * count over the lines
RECURSIVE LineSum(_)
LineSum(lines) ==
  IF lines = <<>> THEN 0
  ELSE LineSum(SubSeq(lines, 1, Len(lines) - 1))
         + lines[Len(lines)].price * lines[Len(lines)].count

\* C1: every persisted cart has cartTotal = sum over its lines of price * count.
C1_CartTotalIsSum ==
  \A u \in Users : \A i \in 1..Len(carts[u]) :
    carts[u][i].cartTotal = LineSum(carts[u][i].products)

\* C2: createOrder (cash on delivery, address complete) on a cart that exists
\* and has no lines answers EmptyCart, creates no order and changes no stock.
C2_EmptyCartOrderFails ==
  [][( /\ last'.op = "createOrder"
       /\ last'.status # "nocod"
       /\ AddressComplete(user[last'.user])
       /\ HasCart(carts, last'.user)
       /\ CartOf(carts, last'.user).products = <<>> )
     => ( /\ last'.status = "emptycart"
          /\ orders' = orders
          /\ product' = product )]_vars

\* C3: a userCart request rejected because a line fails validation writes no
\* cart: the persisted carts are those of before the request.
C3_RejectedUserCartWritesNothing ==
  [][(last'.op = "userCart" /\ last'.status = "rejected")
     => carts' = carts]_vars

\* C4: after a successful userCart or updateUserCart, every line of the cart
\* whose product the request named has a count no greater than the quantity
\* the request read for that product.
C4_CountWithinQuantityRead ==
  [][( /\ last'.op \in {"userCart", "updateUserCart"}
       /\ last'.status = "ok" )
     => \A k \in 1..Len(CartOf(carts', last'.user).products) :
          LET line == CartOf(carts', last'.user).products[k]
          IN  (\E j \in 1..Len(last'.input) : last'.input[j]._id = line.product)
                => line.count <= product[line.product].quantity]_vars

\* C5: an updateUserCart request rejected because a line fails validation
\* leaves the persisted carts (lines, counts, cartTotal, totalAfterDiscount)
\* exactly as they were.
C5_RejectedMergeWritesNothing ==
  [][(last'.op = "updateUserCart" /\ last'.status = "rejected")
     => carts' = carts]_vars

\* C5 happens: a merge was rejected for a cart that holds lines.
C5_Witness ==
  /\ last.op = "updateUserCart"
  /\ last.status = "rejected"
  /\ HasCart(carts, last.user)
  /\ CartOf(carts, last.user).products # <<>>

\* the (productId, colour) pair an item resolves to
SamePair(line, item, prod) ==
  /\ line.product = item._id
  /\ line.color = ResolveColor(item, prod[item._id])

\* the counts the items of a request bring for the pair of a line
RECURSIVE Incoming(_, _, _)
Incoming(items, line, prod) ==
  IF items = <<>> THEN 0
  ELSE (IF SamePair(line, Head(items), prod) THEN Head(items).count ELSE 0)
         + Incoming(Tail(items), line, prod)

\* line k is the first line of the cart with its pair
FirstOfPair(lines, k) ==
  \A j \in 1..(k - 1) :
    ~(lines[j].product = lines[k].product /\ lines[j].color = lines[k].color)

\* C6: a successful updateUserCart adds, for every pair the cart held, the
\* incoming counts to the (first) line of that pair and adds no line of that
\* pair; the items of pairs the cart did not hold are appended, in order.
C6_MergeAddsCounts ==
  [][(last'.op = "updateUserCart" /\ last'.status = "ok")
     => LET old == CartOf(carts, last'.user).products
            new == CartOf(carts', last'.user).products
            items == last'.input
            fresh == SelectSeq(items,
                       LAMBDA it : \A k \in 1..Len(old) :
                                     ~SamePair(old[k], it, product))
        IN  /\ Len(new) = Len(old) + Len(fresh)
            /\ \A k \in 1..Len(old) :
                 /\ new[k].product = old[k].product
                 /\ new[k].color = old[k].color
                 /\ new[k].price = old[k].price
                 /\ new[k].count =
                      old[k].count
                        + (IF FirstOfPair(old, k)
                             THEN Incoming(items, old[k], product) ELSE 0)
            /\ \A j \in 1..Len(fresh) :
                 /\ new[Len(old) + j].product = fresh[j]._id
                 /\ new[Len(old) + j].count = fresh[j].count
                 /\ SamePair(new[Len(old) + j], fresh[j], product)
                 /\ new[Len(old) + j].price = product[fresh[j]._id].price]_vars

\* C6 happens: the last merge named the pair of a line the cart held before
\* (the line counts more than the request brought) and appended another line.
C6_Witness ==
  /\ last.op = "updateUserCart"
  /\ last.status = "ok"
  /\ LET lines == CartOf(carts, last.user).products
     IN  /\ \E k \in 1..Len(lines) :
              /\ Incoming(last.input, lines[k], product) > 0
              /\ lines[k].count > Incoming(last.input, lines[k], product)
         /\ \E k \in 1..Len(lines) :
              lines[k].count = Incoming(last.input, lines[k], product)

\* C7: a successful applyCoupon with a coupon of d percent sets
\* totalAfterDiscount to cartTotal * (1 - d/100) rounded to two decimals,
\* whatever totalAfterDiscount was before.
C7_DiscountFromCartTotal ==
  [][(last'.op = "applyCoupon" /\ last'.status = "ok")
     => /\ \E c \in coupons : c.name = ToUpperCase(last'.input)
        /\ \A c \in coupons :
             c.name = ToUpperCase(last'.input)
               => LET exact == CartOf(carts, last'.user).cartTotal
                                 * (100 - c.discount)
                      n == CartOf(carts', last'.user).totalAfterDiscount
                  IN  exact - 50 < 100 * n /\ 100 * n <= exact + 50]_vars

\* C7 happens: a coupon was applied to a cart with lines, and the discounted
\* total had to be rounded.
C7_Witness ==
  /\ last.op = "applyCoupon"
  /\ last.status = "ok"
  /\ CartOf(carts, last.user).products # <<>>
  /\ \E c \in coupons :
       /\ c.name = ToUpperCase(last.input)
       /\ (CartOf(carts, last.user).cartTotal * (100 - c.discount)) % 100 # 0

\* C8: applyCoupon leaves the lines, the cartTotal and the owner of every
\* cart, and every product, coupon, order and user, as they were.
C8_CouponOnlyWritesDiscount ==
  [][(last'.op = "applyCoupon")
     => /\ orders' = orders
        /\ product' = product
        /\ coupons' = coupons
        /\ user' = user
        /\ \A u \in Users :
             /\ Len(carts'[u]) = Len(carts[u])
             /\ \A i \in 1..Len(carts[u]) :
                  /\ carts'[u][i].products = carts[u][i].products
                  /\ carts'[u][i].cartTotal = carts[u][i].cartTotal
                  /\ carts'[u][i].orderby = carts[u][i].orderby]_vars

\* C8 happens: a coupon was applied and lowered the total of a cart with lines.
C8_Witness ==
  /\ last.op = "applyCoupon"
  /\ last.status = "ok"
  /\ CartOf(carts, last.user).products # <<>>
  /\ CartOf(carts, last.user).totalAfterDiscount
       < CartOf(carts, last.user).cartTotal

\* C9: the amount of a created order is the cart's totalAfterDiscount when
\* couponApplied is set and a coupon was applied to the cart, and the cart's
\* cartTotal otherwise.
C9_AmountCharged ==
  [][(last'.op = "createOrder" /\ last'.status = "ok")
     => LET cart == CartOf(carts, last'.user)
        IN  orders'[Len(orders')].paymentIntent.amount =
              IF last'.input /\ cart.couponed
                THEN cart.totalAfterDiscount
                ELSE cart.cartTotal]_vars

\* the count the lines of an order take of product p
RECURSIVE Ordered(_, _)
Ordered(lines, p) ==
  IF lines = <<>> THEN 0
  ELSE (IF Head(lines).product = p THEN Head(lines).count ELSE 0)
         + Ordered(Tail(lines), p)

\* C10: a successful createOrder takes, of every product, the counts of the
\* cart's lines that reference it off quantity and adds them to sold; the
\* products no line references keep both.
C10_StockFollowsLines ==
  [][(last'.op = "createOrder" /\ last'.status = "ok")
     => LET lines == CartOf(carts, last'.user).products
        IN  \A p \in DOMAIN product :
              /\ product'[p].quantity = product[p].quantity - Ordered(lines, p)
              /\ product'[p].sold = product[p].sold + Ordered(lines, p)
              /\ product'[p].price = product[p].price
              /\ product'[p].color = product[p].color]_vars

\* C10 happens: an order of a full cart was placed, which took stock of one
\* product and left the other product as it was.
C10_Witness ==
  /\ last.op = "createOrder"
  /\ last.status = "ok"
  /\ Len(orders[Len(orders)].products) = MaxLines
  /\ \E p \in DOMAIN product : product[p].sold > 0
  /\ \E p \in DOMAIN product : product[p].sold = 0

\* C11: right after a successful createOrder, the owner's cart has no lines
\* and both cartTotal and totalAfterDiscount are 0.
C11_CartResetAfterOrder ==
  [][(last'.op = "createOrder" /\ last'.status = "ok")
     => /\ HasCart(carts', last'.user)
        /\ CartOf(carts', last'.user).products = <<>>
        /\ CartOf(carts', last'.user).cartTotal = 0
        /\ CartOf(carts', last'.user).totalAfterDiscount = 0]_vars

\* C11 happens: an order with lines and a discounted amount was placed, so
\* the cart that was reset held lines, a total and a discount.
C11_Witness ==
  /\ last.op = "createOrder"
  /\ last.status = "ok"
  /\ last.input
  /\ orders[Len(orders)].products # <<>>
  /\ orders[Len(orders)].paymentIntent.amount = 135
  /\ CartOf(carts, last.user).products = <<>>

\* C12: createOrder by an owner whose address lacks a city or a postal code
\* is answered with the incomplete-address error (a request without the COD
\* flag is turned down before that) and leaves the orders, every product's
\* quantity and sold counter, and the carts as they were.
C12_IncompleteAddressOrderFails ==
  [][(/\ last'.op = "createOrder"
      /\ \/ user[last'.user].address.city = ""
         \/ user[last'.user].address.pincode = "")
     => /\ last'.status \in {"address", "nocod"}
        /\ orders' = orders
        /\ product' = product
        /\ carts' = carts]_vars

\* C12 happens: the owner without a postal code holds a cart with lines and a
\* discount, and the order was refused for the address.
C12_Witness ==
  /\ last.op = "createOrder"
  /\ last.status = "address"
  /\ HasCart(carts, last.user)
  /\ Len(CartOf(carts, last.user).products) = MaxLines
  /\ CartOf(carts, last.user).couponed

\* C13: an updateOrderStatus whose orderStatus or paymentStatus is outside
\* its vocabulary is rejected as invalid, and no order changes: neither the
\* orderStatus nor the paymentIntent.status is written, even when the other
\* string is valid.
C13_InvalidStatusWritesNothing ==
  [][(/\ last'.op = "updateOrderStatus"
      /\ \/ ~Includes(validStatuses, ToLowerCase(last'.input.orderStatus))
         \/ ~Includes(paymentStatuses,
                      ToLowerCase(last'.input.paymentStatus)))
     => /\ last'.status \in {"invalidOrderStatus", "invalidPaymentStatus"}
        /\ orders' = orders]_vars

\* C13 happens: an update of an existing order with a valid orderStatus, other
\* than the one the order has, was rejected for its paymentStatus.
C13_Witness ==
  /\ last.op = "updateOrderStatus"
  /\ last.status = "invalidPaymentStatus"
  /\ last.input.id \in 1..Len(orders)
  /\ Includes(validStatuses, ToLowerCase(last.input.orderStatus))
  /\ orders[last.input.id].orderStatus
       # TitleCase(ToLowerCase(last.input.orderStatus))

\* the moves of orderStatus the lifecycle allows
Lifecycle ==
  {<<"Not Processed", "Processing">>, <<"Processing", "Dispatched">>,
   <<"Dispatched", "Delivered">>}
  \cup {<<from, "Cancelled">> :
          from \in {"Not Processed", "Processing", "Dispatched"}}

\* C14: the orderStatus of an order only moves along Not Processed ->
\* Processing -> Dispatched -> Delivered, or to Cancelled from a state that is
\* not terminal; it never moves backwards, never skips, and never leaves
\* Delivered or Cancelled.
C14_StatusFollowsLifecycle ==
  [][\A i \in 1..Len(orders) :
       \/ orders'[i].orderStatus = orders[i].orderStatus
       \/ <<orders[i].orderStatus, orders'[i].orderStatus>> \in Lifecycle]_vars

\* C15: no step removes an order or changes the lines, the amount, the
\* payment method or the owner of an order that exists; only orderStatus and
\* paymentIntent.status may differ afterwards.
C15_OrderIsImmutable ==
  [][/\ Len(orders') >= Len(orders)
     /\ \A i \in 1..Len(orders) :
          /\ orders'[i].products = orders[i].products
          /\ orders'[i].paymentIntent.amount = orders[i].paymentIntent.amount
          /\ orders'[i].paymentIntent.method = orders[i].paymentIntent.method
          /\ orders'[i].orderby = orders[i].orderby]_vars

\* C15 happens: the first order has lines and had its status and payment
\* status updated, a later order was placed by the same owner, the owner has
\* built a cart again, and the catalog price of the ordered product changed.
C15_Witness ==
  /\ Len(orders) = MaxOrdersKept
  /\ orders[1].products # <<>>
  /\ orders[1].orderStatus = "Delivered"
  /\ orders[1].paymentIntent.status = "Payment Successful"
  /\ orders[1].paymentIntent.amount = 150
  /\ orders[2].orderby = orders[1].orderby
  /\ product[orders[1].products[1].product].price # 150
  /\ HasCart(carts, orders[1].orderby)
  /\ CartOf(carts, orders[1].orderby).products # <<>>

\* C18: a cart line carries the catalog price read when userCart added it; a
\* later change of the catalog price leaves the carts (line prices and
\* cartTotal) as they were, and a later createOrder charges the sum of the
\* prices the lines carry, whatever the catalog says by then.
C18_PriceIsSnapshot ==
  [][/\ (last'.op = "userCart" /\ last'.status = "ok")
        => \A k \in 1..Len(CartOf(carts', last'.user).products) :
             LET line == CartOf(carts', last'.user).products[k]
             IN  line.price = product[line.product].price
     /\ last'.op = "updateProduct" => carts' = carts
     /\ (last'.op = "createOrder" /\ last'.status = "ok")
        => orders'[Len(orders')].paymentIntent.amount
             = LineSum(CartOf(carts, last'.user).products)]_vars

\* C18 happens: an order of p1 was charged 1.50, the price the line carried,
\* while the catalog price of p1 had been changed to 2.00.
C18_Witness ==
  /\ last.op = "createOrder"
  /\ last.status = "ok"
  /\ orders[Len(orders)].products # <<>>
  /\ orders[Len(orders)].products[1].product = "p1"
  /\ orders[Len(orders)].paymentIntent.amount = 150
  /\ product["p1"].price = 200

\* C16: in every reachable state, also when requests of one user interleave
\* (two userCart submissions, or a login and a userCart submission), every
\* owner has at most one cart document.
C16_OneCartPerOwner ==
  \A u \in Users : Len(carts[u]) <= 1

\* C17: after a successful userCart the owner has one cart, made of exactly
\* the submitted lines in the order of the request (product, count, resolved
\* colour, catalog price), with cartTotal the sum over these lines and
\* totalAfterDiscount equal to cartTotal: nothing of the previous cart is left.
C17_UserCartReplaces ==
  [][(last'.op = "userCart" /\ last'.status = "ok")
     => LET items == last'.input
            cart == CartOf(carts', last'.user)
        IN  /\ Len(carts'[last'.user]) = 1
            /\ Len(cart.products) = Len(items)
            /\ \A k \in 1..Len(items) :
                 /\ cart.products[k].product = items[k]._id
                 /\ cart.products[k].count = items[k].count
                 /\ cart.products[k].price = product[items[k]._id].price
                 /\ cart.products[k].color =
                      IF items[k].color # NoColor THEN items[k].color
                      ELSE IF product[items[k]._id].color # <<>>
                        THEN product[items[k]._id].color[1]
                      ELSE "General"
            /\ cart.cartTotal = LineSum(cart.products)
            /\ cart.totalAfterDiscount = cart.cartTotal
            /\ ~cart.couponed]_vars

\* C17 happens: the owner, who has placed an order and so had a cart before,
\* submitted a cart of MaxLines lines and it was stored.
C17_Witness ==
  /\ last.op = "userCart"
  /\ last.status = "ok"
  /\ Len(last.input) = MaxLines
  /\ Len(orders) > 0
  /\ orders[1].orderby = last.user
  /\ Len(CartOf(carts, last.user).products) = MaxLines

\* the empty state of a cart
IsEmptyCart(cart) ==
  /\ cart.products = <<>>
  /\ cart.cartTotal = 0
  /\ cart.totalAfterDiscount = 0

C20_CouponFailuresWriteNothing ==
  [][last'.op = "applyCoupon"
     => LET known == \E c \in coupons : c.name = ToUpperCase(last'.input)
        IN  /\ ~known => (last'.status = "invalidcoupon" /\ carts' = carts)
            /\ (known /\ ~HasCart(carts, last'.user))
                 => (last'.status = "nocart" /\ carts' = carts)
            /\ last'.status # "ok" => carts' = carts]_vars

\* C20 happens: a code that names no coupon was refused while the owner held
\* a cart with lines.
C20_Witness ==
  /\ last.op = "applyCoupon"
  /\ last.status = "invalidcoupon"
  /\ HasCart(carts, last.user)
  /\ CartOf(carts, last.user).products # <<>>

\* C20 happens as well for an owner without a cart and a known code.
C20_WitnessNoCart ==
  /\ last.op = "applyCoupon"
  /\ last.status = "nocart"
  /\ \E c \in coupons : c.name = ToUpperCase(last.input)
  /\ ~HasCart(carts, last.user)

\* C25: the totalAfterDiscount of every cart is its current cartTotal, or the
\* current cartTotal less the percentage of some coupon, rounded to
\* hundredths; no discounted total of an older cartTotal stays on a cart.
C25_DiscountFollowsCartTotal ==
  \A u \in Users : \A i \in 1..Len(carts[u]) :
    LET cart == carts[u][i]
    IN  \/ cart.totalAfterDiscount = cart.cartTotal
        \/ \E c \in coupons :
             cart.totalAfterDiscount
               = ToFixed2(cart.cartTotal * (100 - c.discount))

\* the pairs (product, colour) of the lines of a cart, one per line
LinePairs(cart) ==
  [k \in 1..Len(cart.products) |->
     <<cart.products[k].product, cart.products[k].color>>]

\* C26: no cart holds two lines with the same (product, colour) pair.
C26_NoDuplicateLines ==
  \A u \in Users : \A i \in 1..Len(carts[u]) :
    \A j, k \in 1..Len(carts[u][i].products) :
      LinePairs(carts[u][i])[j] = LinePairs(carts[u][i])[k] => j = k

\* the count all orders together take of product p
RECURSIVE OrderedByAll(_, _)
OrderedByAll(os, p) ==
  IF os = <<>> THEN 0
  ELSE Ordered(Head(os).products, p) + OrderedByAll(Tail(os), p)

C28_ExpiredCouponWritesNothing ==
  [][(/\ last'.op = "applyCoupon"
      /\ \E c \in coupons :
           c.name = ToUpperCase(last'.input) /\ c.expiry < Now)
     => carts' = carts]_vars

\* C21: in every reachable state, also after orders of several users for one
\* product and orders of carts that were validated earlier, the quantity of
\* every product is at least 0.
C21_StockNeverNegative ==
  \A p \in DOMAIN product : product[p].quantity >= 0

\* C30: a request of one user leaves the carts of every other user and the
\* orders of every other user as they were (no order is removed, and an order
\* that is added belongs to the requesting user), and getOrders answers with
\* exactly the orders whose owner is the requesting user.
C30_OtherUsersUntouched ==
  [][/\ \A v \in Users \ {last'.user} :
          /\ carts'[v] = carts[v]
          /\ SelectSeq(orders', LAMBDA o : o.orderby = v)
               = SelectSeq(orders, LAMBDA o : o.orderby = v)
     /\ (last'.op = "getOrders" /\ last'.status = "ok")
          => /\ \A i \in 1..Len(last'.input) :
                  last'.input[i].orderby = last'.user
             /\ Len(last'.input)
                  = Cardinality({i \in 1..Len(orders) :
                                   orders[i].orderby = last'.user})]_vars

\* C30 happens: a user read their orders while the collection also holds an
\* order of the other buyer, who has a cart with lines and a coupon discount.
C30_Witness ==
  /\ last.op = "getOrders"
  /\ last.status = "ok"
  /\ \E i \in 1..Len(orders) : orders[i].orderby # last.user
  /\ \E v \in Buyers \ {last.user} :
       /\ HasCart(carts, v)
       /\ CartOf(carts, v).products # <<>>
       /\ CartOf(carts, v).couponed

\* the orders that have lines
OrdersWithLines == SelectSeq(orders, LAMBDA o : o.products # <<>>)

\* C22: the one cart submission yields at most one order with lines, however
\* the createOrder requests of the owner interleave, and every product is
\* sold at most the count the lines of that order give it.
C22_OneOrderPerSubmission ==
  /\ Len(OrdersWithLines) <= 1
  /\ \A p \in DOMAIN product :
       product[p].sold
         <= IF OrdersWithLines = <<>> THEN 0
            ELSE Ordered(OrdersWithLines[1].products, p)

\* C23: when createOrder has saved its order and the stock update did not go
\* through, the order stays, the stock is left as the failed update left it,
\* and the client is answered with a successful order response.
C23_StockFailureAnswersSuccess ==
  [][(/\ last'.op = "createOrder"
      /\ Len(orders') = Len(orders) + 1
      /\ product' # BulkWrite(product, CartOf(carts, last'.user).products))
     => /\ last'.status = "ok"
        /\ SubSeq(orders', 1, Len(orders)) = orders]_vars

\* the requests that saved at this step
Saving(r) ==
  /\ requests[r].pc = "updateUserCart"
  /\ requests'[r].pc = "answered"
  /\ last'.status = "ok"

C29_OneResponsePerRequest ==
  \A r \in Slots :
    requests[r].pc \in {"userCart", "userCartAnswer", "returned"}
    => requests[r].json <= 1

====
